---- MODULE Spec2Model ----
(***************************************************************************)
(* Order fulfilment and inventory consistency of the Zion Business         *)
(* Manager: the services (services.py) over the models (models.py) and     *)
(* the SQLite store (database.py).                                         *)
(*                                                                         *)
(* The committed store is the tables customers, products, orders,          *)
(* order_items and transactions with SQLite's AUTOINCREMENT counters.      *)
(* Every `with db_manager.cursor()` block is one unit of work on a         *)
(* connection of its own.  A unit is an operator from a store value to a   *)
(* store value; a handler runs its units one after the other and the       *)
(* store is committed between two of them, so that another caller may run  *)
(* there.                                                                  *)
(*                                                                         *)
(* Prices are integers (minor units); REAL rounding is not modelled.       *)
(* Columns that no handler reads (names, notes, timestamps, categories,    *)
(* suppliers) are not modelled.                                            *)
(***************************************************************************)
EXTENDS Integers, Sequences, FiniteSets, TLC

VARIABLES
    customers,       \* customers table: id -> [email]
    products,        \* products table: id -> [sku, quantity, price, cost_price]
    orders,          \* orders table: id -> [customer_id, status, total_amount]
    order_items,     \* order_items table: rows [id, order_id, product_id,
                     \* quantity, unit_price] in rowid order
    transactions,    \* transactions table (the ledger): rows [id, order_id,
                     \* transaction_type, amount] in rowid order
    sqlite_sequence, \* table name -> the largest id AUTOINCREMENT has given out
    conn,            \* what the most recent step called on its connection once
                     \* its statements had run; <<>> when it ended no unit of work
    last,            \* the most recent completed call: [op, ret, line], the handler,
                     \* what it returned ("raised" for an exception) and the source
                     \* line of the statement that ended it
    calls            \* per caller, the call in flight and its local variables

vars == <<customers, products, orders, order_items, transactions,
          sqlite_sequence, conn, last, calls>>

-----------------------------------------------------------------------------
(* Bounds and input domains *)

MaxOrders == 1        \* create_order is not called beyond this many orders
MaxItems == 2         \* add_item is not called beyond this many order_items rows
MaxTransactions == 2  \* record_transaction is not called beyond this many rows
MaxProducts == 3      \* add_product is not called beyond this many products
MaxCustomers == 2     \* register_customer is not called beyond this many customers

\* SQL NULL and Python's None
NULL == -9999

\* the catalogue when the run starts: two add_product calls have been made
InitProducts ==
    <<[sku |-> "s1", quantity |-> 2, price |-> 2, cost_price |-> 1],
      [sku |-> "s2", quantity |-> 2, price |-> 3, cost_price |-> 2]>>

\* calls that would move a stock level beyond +-MaxStock are not issued
MaxStock == InitProducts[1].quantity + 1

ProductIds == DOMAIN InitProducts              \* the products of the first catalogue
ProductInputs == 1..(MaxProducts + 1)          \* the last one never exists
OrderInputs == 1..(MaxOrders + 1)              \* the last one never exists
CustomerInputs == {NULL} \cup 1..(MaxCustomers + 1)
QtyInputs == 1..MaxStock                       \* positive quantities
IntQtyInputs == (-1)..MaxStock                 \* any integer quantity
DeltaInputs == {-MaxStock, -1, 1}              \* adjust_stock deltas
\* catalogue prices a product is changed to
PriceInputs == {2, 5}
\* what add_product is called with: the rows of the first catalogue and two
\* more, one of them with a sku the first catalogue has
ProductRowInputs ==
    {InitProducts[p] : p \in ProductIds}
        \cup {[sku |-> "s3", quantity |-> 1, price |-> 4, cost_price |-> 1],
              [sku |-> "s2", quantity |-> 1, price |-> 4, cost_price |-> 1]}
\* what register_customer is called with
EmailInputs == {"", "e"}
\* the keyword arguments update_customer is called with: none, an email, a
\* column the store does not follow
CustomerKwargs == {[column \in {} |-> 0], [email |-> ""], [email |-> "e"], [phone |-> "1"]}
\* the keyword arguments update_product is called with: none, a quantity, a
\* price together with the sku of product 2; a price alone; a cost price
NoKwargs == [column \in {} |-> 0]
KwargsInputs == {NoKwargs, [quantity |-> 0], [price |-> 5, sku |-> "s2"]}
PriceKwargs == {[price |-> x] : x \in PriceInputs}
CostKwargs == {[cost_price |-> 3]}
\* ledger entry types and amounts record_transaction is called with
TransactionTypes == {"payment", "sale", "refund"}
AmountInputs == {1, 2}
Callers == {1, 2}
\* the tables BaseModel.delete is called on
TableInputs == {"customers", "products", "orders", "order_items", "transactions"}

\* src/services.py:173
valid_statuses ==
    {"pending", "confirmed", "processing", "shipped", "delivered", "cancelled"}

StatusInputs == valid_statuses \cup {"bogus"}

\* the committed store as one value
Store ==
    [customers |-> customers, products |-> products, orders |-> orders,
     order_items |-> order_items, transactions |-> transactions,
     sqlite_sequence |-> sqlite_sequence]

-----------------------------------------------------------------------------
(* database.py: DatabaseManager.cursor *)

\* What goes wrong in a unit of work: nothing (NoFault), its k-th statement
\* raising an Exception (k >= 1, a storage failure), conn.commit() raising
\* (CommitFault: "database is locked"), or a BaseException that is no
\* Exception reaching the body (Interrupt: KeyboardInterrupt).
NoFault == 0
CommitFault == -1
Interrupt == -2

StatementFaults == 0..(MaxItems + 1)
FaultInputs == StatementFaults \cup {CommitFault, Interrupt}

\* three units of work that all succeed
NoFaults == <<NoFault, NoFault, NoFault>>

\* which way a unit of `statements` statements leaves the try block:
\* `violation` is a statement raising on its own (a constraint of the schema)
Ending(fault, statements, violation) ==
    IF fault = Interrupt THEN "base_exception"
    ELSE IF violation \/ fault \in 1..statements THEN "exception"
    ELSE IF fault = CommitFault THEN "commit_exception"
    ELSE "normal"

\* cursor with the commit moved where it also runs when the body raised
cursor_CommitsOnError(before, body, ending) ==
    [db |-> body, raised |-> ending # "normal", conn |-> <<"commit", "close">>]

\* cursor closing the connection after the commit instead of in a finally
cursor_NoFinally(before, body, ending) ==
    IF ending = "normal"
    THEN [db |-> body, raised |-> FALSE, conn |-> <<"commit", "close">>]
    ELSE IF ending = "exception"
    THEN [db |-> before, raised |-> TRUE, conn |-> <<"rollback">>]
    ELSE IF ending = "commit_exception"
    THEN [db |-> before, raised |-> TRUE, conn |-> <<"commit", "rollback">>]
    ELSE [db |-> before, raised |-> TRUE, conn |-> <<>>]

\* The unit of work: `body` is the store the statements have produced when the
\* block is left.  A normal end commits.  An Exception from the body is caught:
\* rollback, re-raise.  conn.commit() is inside the try, so an Exception from
\* it is caught the same way: commit, rollback, re-raise.  A BaseException is
\* not caught: neither commit nor rollback is called, and closing the
\* connection discards the open transaction.  The finally closes the
\* connection every time.
cursor(before, body, ending) ==
    IF ending = "normal"
    THEN [db |-> body, raised |-> FALSE, conn |-> <<"commit", "close">>]
    ELSE IF ending = "exception"
    THEN [db |-> before, raised |-> TRUE, conn |-> <<"rollback", "close">>]
    ELSE IF ending = "commit_exception"
    THEN [db |-> before, raised |-> TRUE, conn |-> <<"commit", "rollback", "close">>]
    ELSE [db |-> before, raised |-> TRUE, conn |-> <<"close">>]

-----------------------------------------------------------------------------
(* models.py *)

\* the id AUTOINCREMENT gives the next row of a table
NextId(db, table_name) == db.sqlite_sequence[table_name] + 1

\* a table keyed by id with one more row
Insert(table, id, row) ==
    [i \in DOMAIN table \cup {id} |-> IF i = id THEN row ELSE table[i]]

\* UPDATE ... SET column = ? for the columns of kwargs
SetColumns(row, kwargs) ==
    [column \in DOMAIN row |->
        IF column \in DOMAIN kwargs THEN kwargs[column] ELSE row[column]]

\* BaseModel.get_by_id on products or orders: one unit of work whose SELECT
\* yields the row, or None (the empty sequence)
get_by_id(db, table_name, record_id, fault) ==
    LET r == cursor(db, db, Ending(fault, 1, FALSE))
    IN  [raised |-> r.raised, conn |-> r.conn,
         row |-> IF ~r.raised /\ record_id \in DOMAIN db[table_name]
                 THEN <<db[table_name][record_id]>> ELSE <<>>]

\* whether a row of another table refers to the row, which makes its DELETE
\* raise (PRAGMA foreign_keys = ON, no ON DELETE clause)
Referenced(db, table_name, record_id) ==
    IF table_name = "customers"
    THEN \E o \in DOMAIN db.orders : db.orders[o].customer_id = record_id
    ELSE IF table_name = "products"
    THEN \E i \in DOMAIN db.order_items : db.order_items[i].product_id = record_id
    ELSE IF table_name = "orders"
    THEN \/ \E i \in DOMAIN db.order_items : db.order_items[i].order_id = record_id
         \/ \E i \in DOMAIN db.transactions : db.transactions[i].order_id = record_id
    ELSE FALSE

\* the ids of the rows of a table
Ids(db, table_name) ==
    IF table_name \in {"order_items", "transactions"}
    THEN {db[table_name][i].id : i \in DOMAIN db[table_name]}
    ELSE DOMAIN db[table_name]

\* DELETE FROM table WHERE id = ?
Without(db, table_name, record_id) ==
    IF table_name \in {"order_items", "transactions"}
    THEN SelectSeq(db[table_name], LAMBDA row : row.id # record_id)
    ELSE [i \in DOMAIN db[table_name] \ {record_id} |-> db[table_name][i]]

\* BaseModel.delete: one unit of work, rowcount > 0
delete(db, table_name, record_id, fault) ==
    LET body == [db EXCEPT ![table_name] = Without(db, table_name, record_id)]
        r == cursor(db, body, Ending(fault, 1, Referenced(db, table_name, record_id)))
    IN  [db |-> r.db, raised |-> r.raised, conn |-> r.conn,
         ret |-> record_id \in Ids(db, table_name)]

\* Customer.create: INSERT INTO customers; email is UNIQUE
Customer_create(db, email, fault) ==
    LET id == NextId(db, "customers")
        taken == \E k \in DOMAIN db.customers : db.customers[k].email = email
        body == [db EXCEPT !.customers = Insert(@, id, [email |-> email]),
                           !.sqlite_sequence.customers = id]
        r == cursor(db, body, Ending(fault, 1, taken))
    IN  [db |-> r.db, raised |-> r.raised, conn |-> r.conn, ret |-> id]

\* Customer.update(record_id, **kwargs): False without a connection when
\* there are no kwargs, else one unit of work, rowcount > 0; the UPDATE raises
\* when it gives the row the email of another customer
Customer_update(db, id, kwargs, fault) ==
    IF DOMAIN kwargs = {}
    THEN [db |-> db, raised |-> FALSE, conn |-> <<>>, ret |-> FALSE]
    ELSE LET found == id \in DOMAIN db.customers
             taken == /\ found
                      /\ "email" \in DOMAIN kwargs
                      /\ \E k \in DOMAIN db.customers \ {id} :
                            db.customers[k].email = kwargs["email"]
             body == [db EXCEPT !.customers =
                         [k \in DOMAIN @ |->
                             IF k = id THEN SetColumns(@[k], kwargs) ELSE @[k]]]
             r == cursor(db, body, Ending(fault, 1, taken))
         IN  [db |-> r.db, raised |-> r.raised, conn |-> r.conn, ret |-> found]

\* Product.create: INSERT INTO products; sku is UNIQUE
Product_create(db, sku, price, cost_price, quantity, fault) ==
    LET id == NextId(db, "products")
        taken == \E p \in DOMAIN db.products : db.products[p].sku = sku
        body == [db EXCEPT !.products =
                               Insert(@, id, [sku |-> sku, quantity |-> quantity,
                                              price |-> price, cost_price |-> cost_price]),
                           !.sqlite_sequence.products = id]
        r == cursor(db, body, Ending(fault, 1, taken))
    IN  [db |-> r.db, raised |-> r.raised, conn |-> r.conn, ret |-> id]

\* UPDATE products SET quantity = quantity + ? WHERE id = ?
AddQuantity(prods, id, change) ==
    [p \in DOMAIN prods |->
        IF p = id THEN [prods[p] EXCEPT !.quantity = @ + change] ELSE prods[p]]

\* Product.update_quantity: one unit of work, rowcount > 0
Product_update_quantity(db, id, change, fault) ==
    LET body == [db EXCEPT !.products = AddQuantity(@, id, change)]
        r == cursor(db, body, Ending(fault, 1, FALSE))
    IN  [db |-> r.db, raised |-> r.raised, conn |-> r.conn,
         ret |-> id \in DOMAIN db.products]

\* Product.update(record_id, **kwargs): False without a connection when there
\* are no kwargs, else one unit of work, rowcount > 0; the UPDATE raises when
\* it gives the row the sku of another product
Product_update(db, id, kwargs, fault) ==
    IF DOMAIN kwargs = {}
    THEN [db |-> db, raised |-> FALSE, conn |-> <<>>, ret |-> FALSE]
    ELSE LET found == id \in DOMAIN db.products
             taken == /\ found
                      /\ "sku" \in DOMAIN kwargs
                      /\ \E p \in DOMAIN db.products \ {id} :
                            db.products[p].sku = kwargs["sku"]
             body == [db EXCEPT !.products =
                         [p \in DOMAIN @ |->
                             IF p = id THEN SetColumns(@[p], kwargs) ELSE @[p]]]
             r == cursor(db, body, Ending(fault, 1, taken))
         IN  [db |-> r.db, raised |-> r.raised, conn |-> r.conn, ret |-> found]

\* Order.create: INSERT INTO orders (customer_id, notes); status and
\* total_amount take the column defaults.  The INSERT raises when customer_id
\* is not None and no such customer exists (FOREIGN KEY).
Order_create(db, customer_id, fault) ==
    LET id == NextId(db, "orders")
        body == [db EXCEPT !.orders =
                               Insert(@, id, [customer_id |-> customer_id,
                                              status |-> "pending",
                                              total_amount |-> 0]),
                           !.sqlite_sequence.orders = id]
        r == cursor(db, body,
                    Ending(fault, 1, customer_id # NULL
                                         /\ customer_id \notin DOMAIN db.customers))
    IN  [db |-> r.db, raised |-> r.raised, conn |-> r.conn, ret |-> id]

\* Order.update(record_id, **kwargs): False without a connection when there
\* are no kwargs, else one unit of work, rowcount > 0
Order_update(db, id, kwargs, fault) ==
    IF DOMAIN kwargs = {}
    THEN [db |-> db, raised |-> FALSE, conn |-> <<>>, ret |-> FALSE]
    ELSE LET found == id \in DOMAIN db.orders
             orphan == /\ found
                       /\ "customer_id" \in DOMAIN kwargs
                       /\ kwargs["customer_id"] # NULL
                       /\ kwargs["customer_id"] \notin DOMAIN db.customers
             body == [db EXCEPT !.orders =
                         [o \in DOMAIN @ |->
                             IF o = id THEN SetColumns(@[o], kwargs) ELSE @[o]]]
             r == cursor(db, body, Ending(fault, 1, orphan))
         IN  [db |-> r.db, raised |-> r.raised, conn |-> r.conn, ret |-> found]

\* the row OrderItem.create inserts
NewItem(db, order_id, product_id, quantity, unit_price) ==
    [id |-> NextId(db, "order_items"), order_id |-> order_id,
     product_id |-> product_id, quantity |-> quantity, unit_price |-> unit_price]

\* OrderItem.create adding the quantity to an item the order already has for
\* the product instead of inserting a second one
OrderItem_create_Merges(db, order_id, product_id, quantity, unit_price, fault) ==
    LET fk_ok == order_id \in DOMAIN db.orders /\ product_id \in DOMAIN db.products
        same == {i \in DOMAIN db.order_items :
                    /\ db.order_items[i].order_id = order_id
                    /\ db.order_items[i].product_id = product_id}
        inserted ==
            IF same = {}
            THEN [db EXCEPT !.order_items =
                                Append(@, NewItem(db, order_id, product_id,
                                                  quantity, unit_price)),
                            !.sqlite_sequence.order_items = @ + 1]
            ELSE LET i == CHOOSE j \in same : TRUE
                 IN  [db EXCEPT !.order_items[i].quantity = @ + quantity]
        updated == [inserted EXCEPT !.products = AddQuantity(@, product_id, -quantity)]
        body == IF ~fk_ok \/ fault = 1 THEN db
                ELSE IF fault = 2 THEN inserted ELSE updated
        r == cursor(db, body, Ending(fault, 2, ~fk_ok))
    IN  [db |-> r.db, raised |-> r.raised, conn |-> r.conn,
         ret |-> NextId(db, "order_items")]

\* OrderItem.create: INSERT the item, then UPDATE the product's quantity, in
\* one unit of work.  With PRAGMA foreign_keys = ON the INSERT raises when the
\* order or the product does not exist.
OrderItem_create(db, order_id, product_id, quantity, unit_price, fault) ==
    LET fk_ok == order_id \in DOMAIN db.orders /\ product_id \in DOMAIN db.products
        inserted == [db EXCEPT !.order_items =
                                   Append(@, NewItem(db, order_id, product_id,
                                                     quantity, unit_price)),
                               !.sqlite_sequence.order_items = @ + 1]
        updated == [inserted EXCEPT !.products = AddQuantity(@, product_id, -quantity)]
        body == IF ~fk_ok \/ fault = 1 THEN db
                ELSE IF fault = 2 THEN inserted ELSE updated
        r == cursor(db, body, Ending(fault, 2, ~fk_ok))
    IN  [db |-> r.db, raised |-> r.raised, conn |-> r.conn,
         ret |-> NextId(db, "order_items")]

\* Transaction.create: INSERT INTO transactions, one unit of work.  The INSERT
\* raises when order_id is not None and no such order exists (FOREIGN KEY).
Transaction_create(db, transaction_type, order_id, amount, fault) ==
    LET id == NextId(db, "transactions")
        body == [db EXCEPT !.transactions =
                               Append(@, [id |-> id, order_id |-> order_id,
                                          transaction_type |-> transaction_type,
                                          amount |-> amount]),
                           !.sqlite_sequence.transactions = id]
        r == cursor(db, body,
                    Ending(fault, 1, order_id # NULL /\ order_id \notin DOMAIN db.orders))
    IN  [db |-> r.db, raised |-> r.raised, conn |-> r.conn, ret |-> id]

-----------------------------------------------------------------------------
(* services.py: OrderService *)

\* rows of order_items WHERE order_id = ?
ItemsOf(db, order_id) ==
    SelectSeq(db.order_items, LAMBDA it : it.order_id = order_id)

\* SELECT product_id, quantity FROM order_items WHERE order_id = ?  (fetchall)
SelectItems(db, order_id) ==
    LET rows == ItemsOf(db, order_id)
    IN  [i \in 1..Len(rows) |->
            [product_id |-> rows[i].product_id, quantity |-> rows[i].quantity]]

RECURSIVE SumQuantities(_)
SumQuantities(items) ==
    IF Len(items) = 0 THEN 0 ELSE Head(items).quantity + SumQuantities(Tail(items))

RECURSIVE SumAmounts(_)
SumAmounts(items) ==
    IF Len(items) = 0 THEN 0
    ELSE Head(items).quantity * Head(items).unit_price + SumAmounts(Tail(items))

RECURSIVE SumCatalogAmounts(_, _)
SumCatalogAmounts(db, items) ==
    IF Len(items) = 0 THEN 0
    ELSE Head(items).quantity * db.products[Head(items).product_id].price
             + SumCatalogAmounts(db, Tail(items))

\* the subquery joined to products, summing quantity * products.price
SqlSum_CatalogPrice(db, order_id) ==
    IF Len(ItemsOf(db, order_id)) = 0 THEN NULL
    ELSE SumCatalogAmounts(db, ItemsOf(db, order_id))

\* the subquery summing quantity alone
SqlSum_NoPrice(db, order_id) ==
    SumQuantities(ItemsOf(db, order_id))

\* SELECT SUM(quantity * unit_price) FROM order_items WHERE order_id = ?
SqlSum(db, order_id) ==
    IF Len(ItemsOf(db, order_id)) = 0 THEN NULL ELSE SumAmounts(ItemsOf(db, order_id))

\* _update_order_total adding the order's newest item to the stored total
\* instead of summing all its items again
update_order_total_Increment(db, order_id, fault) ==
    LET items == ItemsOf(db, order_id)
        newest == items[Len(items)]
        body == [db EXCEPT !.orders =
                    [o \in DOMAIN @ |->
                        IF o = order_id /\ Len(items) > 0
                        THEN [@[o] EXCEPT !.total_amount =
                                 @ + newest.quantity * newest.unit_price]
                        ELSE @[o]]]
    IN  cursor(db, body, Ending(fault, 1, FALSE))

\* OrderService._update_order_total: one unit of work
update_order_total(db, order_id, fault) ==
    LET body == [db EXCEPT !.orders =
                    [o \in DOMAIN @ |->
                        IF o = order_id
                        THEN [@[o] EXCEPT !.total_amount = SqlSum(db, order_id)]
                        ELSE @[o]]]
    IN  cursor(db, body, Ending(fault, 1, FALSE))

\* the stock test rejecting only a product that is out of stock
InsufficientStock_OnlyEmpty(product, quantity) == product.quantity <= 0

\* the stock test with <= for <
InsufficientStock_Strict(product, quantity) == product.quantity <= quantity

\* services.py:143  product['quantity'] < quantity
InsufficientStock(product, quantity) == product.quantity < quantity

\* the loop leaving after its first item
RestoreItems_FirstOnly(prods, items) ==
    IF Len(items) = 0 THEN prods
    ELSE AddQuantity(prods, Head(items).product_id, Head(items).quantity)

\* the loop of cancel_order: UPDATE products SET quantity = quantity + ? per item
RECURSIVE RestoreItems(_, _)
RestoreItems(prods, items) ==
    IF Len(items) = 0 THEN prods
    ELSE RestoreItems(AddQuantity(prods, Head(items).product_id, Head(items).quantity),
                      Tail(items))

\* the items whose UPDATE has run when the restoring unit of work is left: all
\* of them, or those before the statement that raised
RestoredItems(items, fault) ==
    IF fault < 1 \/ fault > Len(items) + 1 THEN items
    ELSE IF fault <= 2 THEN <<>>
    ELSE SubSeq(items, 1, fault - 2)

\* cancel_order's restoring unit of work once its SELECT has fetched `items`:
\* one UPDATE per fetched item.  Statement 1 is the SELECT, statement k + 1
\* the k-th UPDATE.  The SELECT runs outside a transaction (the connection
\* opens one at its first UPDATE), so `items` is what the order held when
\* the SELECT ran and db the store when the UPDATEs run.
RestoreStock(db, items, fault) ==
    LET body == [db EXCEPT !.products = RestoreItems(@, RestoredItems(items, fault))]
    IN  cursor(db, body, Ending(fault, Len(items) + 1, FALSE))

\* OrderService.create_order; id is the lastrowid it returns
create_order(db, customer_id, fault) ==
    LET r == Order_create(db, customer_id, fault)
    IN  [db |-> r.db, conn |-> r.conn, ret |-> IF r.raised THEN "raised" ELSE "id",
         line |-> 134, id |-> r.ret]

\* OrderService.add_item_to_order run with no other caller between its units
\* of work; faults[k] is what goes wrong in its k-th unit (Product.get_by_id,
\* OrderItem.create, _update_order_total)
add_item_to_order_faults(db, order_id, product_id, quantity, faults) ==
    LET read == get_by_id(db, "products", product_id, faults[1]) IN
    IF read.raised THEN [db |-> db, conn |-> read.conn, ret |-> "raised", line |-> 139]
    ELSE IF read.row = <<>>
    THEN [db |-> db, conn |-> read.conn, ret |-> "False", line |-> 141]
    ELSE IF InsufficientStock(read.row[1], quantity)
    THEN [db |-> db, conn |-> read.conn, ret |-> "False", line |-> 144]
    ELSE LET c == OrderItem_create(db, order_id, product_id, quantity,
                                   read.row[1].price, faults[2])
         IN  IF c.raised
             THEN [db |-> c.db, conn |-> c.conn, ret |-> "raised", line |-> 147]
             ELSE LET t == update_order_total(c.db, order_id, faults[3])
                  IN  IF t.raised
                      THEN [db |-> t.db, conn |-> t.conn, ret |-> "raised",
                            line |-> 150]
                      ELSE [db |-> t.db, conn |-> t.conn, ret |-> "True",
                            line |-> 151]

\* add_item_to_order reading the product's fields without testing for None
add_item_to_order_NoProductCheck(db, order_id, product_id, quantity) ==
    IF product_id \notin DOMAIN db.products
    THEN [db |-> db, conn |-> <<"commit", "close">>, ret |-> "raised", line |-> 143]
    ELSE add_item_to_order_faults(db, order_id, product_id, quantity, NoFaults)

\* OrderService.add_item_to_order, run to its end with no storage failure
add_item_to_order(db, order_id, product_id, quantity) ==
    add_item_to_order_faults(db, order_id, product_id, quantity, NoFaults)

\* Python's str(bool)
Bool(b) == IF b THEN "True" ELSE "False"

\* what a handler that returns a model's rowcount > 0 hands back
Outcome(r, line) ==
    [db |-> r.db, conn |-> r.conn,
     ret |-> IF r.raised THEN "raised" ELSE Bool(r.ret), line |-> line]

\* update_order_status handing any status to Order.update
update_order_status_NoValidation(db, order_id, status, fault) ==
    Outcome(Order_update(db, order_id, [status |-> status], fault), 176)

\* update_order_status refusing to move an order out of cancelled
update_order_status_NoReopen(db, order_id, status, fault) ==
    IF status \notin valid_statuses
    THEN [db |-> db, conn |-> <<>>, ret |-> "False", line |-> 175]
    ELSE IF /\ order_id \in DOMAIN db.orders
            /\ db.orders[order_id].status = "cancelled"
            /\ status # "cancelled"
    THEN [db |-> db, conn |-> <<>>, ret |-> "False", line |-> 175]
    ELSE Outcome(Order_update(db, order_id, [status |-> status], fault), 176)

\* update_order_status giving the stock back when the target is cancelled
update_order_status_Restocks(db, order_id, status, fault) ==
    IF status \notin valid_statuses
    THEN [db |-> db, conn |-> <<>>, ret |-> "False", line |-> 175]
    ELSE LET restored ==
                 IF status = "cancelled"
                 THEN RestoreStock(db, SelectItems(db, order_id), NoFault).db ELSE db
         IN  Outcome(Order_update(restored, order_id, [status |-> status], fault), 176)

\* OrderService.update_order_status: a status outside valid_statuses is
\* refused before any connection is opened
update_order_status(db, order_id, status, fault) ==
    IF status \notin valid_statuses
    THEN [db |-> db, conn |-> <<>>, ret |-> "False", line |-> 175]
    ELSE Outcome(Order_update(db, order_id, [status |-> status], fault), 176)

\* the guard without its second half
CancelRejected_MissingOnly(order) == order = <<>>

\* services.py:192  not order or order['status'] == 'cancelled'
CancelRejected(order) == order = <<>> \/ order[1].status = "cancelled"

\* cancel_order writing the status in its one-l spelling
SetCancelled_Canceled(db, order_id, fault) ==
    Order_update(db, order_id, [status |-> "canceled"], fault)

\* services.py:208  Order.update(order_id, status='cancelled')
SetCancelled(db, order_id, fault) ==
    Order_update(db, order_id, [status |-> "cancelled"], fault)

\* OrderService.cancel_order run with no other caller between its units of
\* work; faults[k] is what goes wrong in its k-th unit (Order.get_by_id, the
\* restoring block, Order.update)
cancel_order_faults(db, order_id, faults) ==
    LET read == get_by_id(db, "orders", order_id, faults[1]) IN
    IF read.raised THEN [db |-> db, conn |-> read.conn, ret |-> "raised", line |-> 191]
    ELSE IF CancelRejected(read.row)
    THEN [db |-> db, conn |-> read.conn, ret |-> "False", line |-> 193]
    ELSE LET restored == RestoreStock(db, SelectItems(db, order_id), faults[2])
         IN  IF restored.raised
             THEN [db |-> restored.db, conn |-> restored.conn, ret |-> "raised",
                   line |-> 196]
             ELSE Outcome(SetCancelled(restored.db, order_id, faults[3]), 208)

\* OrderService.cancel_order, run to its end with no storage failure
cancel_order(db, order_id) ==
    cancel_order_faults(db, order_id, NoFaults)

-----------------------------------------------------------------------------
(* services.py: CustomerService, ProductService, InventoryService *)

\* CustomerService.register_customer
register_customer(db, email, fault) ==
    LET r == Customer_create(db, email, fault)
    IN  [db |-> r.db, conn |-> r.conn, ret |-> IF r.raised THEN "raised" ELSE "id",
         line |-> 19, id |-> r.ret]

\* CustomerService.update_customer(customer_id, **kwargs)
update_customer(db, customer_id, kwargs, fault) ==
    Outcome(Customer_update(db, customer_id, kwargs, fault), 38)

\* ProductService.add_product
add_product(db, sku, price, cost_price, quantity, fault) ==
    LET r == Product_create(db, sku, price, cost_price, quantity, fault)
    IN  [db |-> r.db, conn |-> r.conn, ret |-> IF r.raised THEN "raised" ELSE "id",
         line |-> 55, id |-> r.ret]

\* ProductService.update_product(product_id, **kwargs)
update_product(db, product_id, kwargs, fault) ==
    Outcome(Product_update(db, product_id, kwargs, fault), 61)

\* ProductService.adjust_stock
adjust_stock(db, product_id, quantity_change, fault) ==
    Outcome(Product_update_quantity(db, product_id, quantity_change, fault), 66)

\* InventoryService.restock_product
restock_product(db, product_id, quantity, fault) ==
    Outcome(Product_update_quantity(db, product_id, quantity, fault), 223)

-----------------------------------------------------------------------------
(* services.py: reports and the ledger *)

\* cursor.fetchone(): the next row of a result set, None (the empty sequence)
\* once it is exhausted, and the rows still to fetch
fetchone(rows) ==
    IF rows = <<>> THEN [row |-> <<>>, rest |-> <<>>]
    ELSE [row |-> <<Head(rows)>>, rest |-> Tail(rows)]

\* Order.get_order_details: one read-only unit of work.  The SELECT by id has
\* at most one row; the conditional expression calls fetchone() once for its
\* test and once more inside dict(...), and dict(None) raises TypeError.
Order_get_order_details(db, order_id) ==
    LET rows == IF order_id \in DOMAIN db.orders THEN <<db.orders[order_id]>> ELSE <<>>
        test == fetchone(rows)
        taken == fetchone(test.rest)
    IN  IF test.row = <<>>
        THEN [raised |-> FALSE, order |-> <<>>, items |-> <<>>]
        ELSE IF taken.row = <<>>
        THEN [raised |-> TRUE, order |-> <<>>, items |-> <<>>]
        ELSE [raised |-> FALSE, order |-> taken.row, items |-> ItemsOf(db, order_id)]

\* OrderService.get_order_details: "None", or "details" with the order row
\* and its items
get_order_details(db, order_id) ==
    LET r == Order_get_order_details(db, order_id)
        u == cursor(db, db, Ending(NoFault, 2, r.raised))
    IN  [db |-> u.db, conn |-> u.conn,
         ret |-> IF r.raised THEN "raised"
                 ELSE IF r.order = <<>> THEN "None" ELSE "details",
         line |-> IF r.raised THEN 251 ELSE 263,
         order |-> r.order, items |-> r.items]

\* FinancialService.record_transaction
record_transaction(db, transaction_type, order_id, amount, fault) ==
    LET r == Transaction_create(db, transaction_type, order_id, amount, fault)
    IN  [db |-> r.db, conn |-> r.conn, ret |-> IF r.raised THEN "raised" ELSE "id",
         line |-> 263, id |-> r.ret]

\* FinancialService.record_payment
record_payment(db, order_id, amount, fault) ==
    LET r == Transaction_create(db, "payment", order_id, amount, fault)
    IN  [db |-> r.db, conn |-> r.conn, ret |-> IF r.raised THEN "raised" ELSE "id",
         line |-> 296, id |-> r.ret]

RECURSIVE SumLedger(_, _)
SumLedger(rows, type) ==
    IF Len(rows) = 0 THEN 0
    ELSE (IF Head(rows).transaction_type = type THEN Head(rows).amount ELSE 0)
             + SumLedger(Tail(rows), type)

\* Transaction.get_summary without dates: SELECT transaction_type, SUM(amount)
\* FROM transactions GROUP BY transaction_type, as a dict
Transaction_get_summary(db) ==
    [t \in {db.transactions[i].transaction_type : i \in DOMAIN db.transactions} |->
        SumLedger(db.transactions, t)]

\* dict.get(key, default)
DictGet(d, key, default) == IF key \in DOMAIN d THEN d[key] ELSE default

\* order_items JOIN products JOIN orders WHERE o.status != 'cancelled'
CostRows(db) ==
    SelectSeq(db.order_items,
              LAMBDA it : /\ it.product_id \in DOMAIN db.products
                          /\ it.order_id \in DOMAIN db.orders
                          /\ db.orders[it.order_id].status # "cancelled")

RECURSIVE SumCosts(_, _)
SumCosts(db, items) ==
    IF Len(items) = 0 THEN 0
    ELSE Head(items).quantity * db.products[Head(items).product_id].cost_price
             + SumCosts(db, Tail(items))

\* SELECT SUM(oi.quantity * p.cost_price): one row, NULL when nothing is summed
SqlSumCost(db) ==
    IF Len(CostRows(db)) = 0 THEN NULL ELSE SumCosts(db, CostRows(db))

\* get_financial_summary from its second unit of work on (services.py:272-291),
\* `summary` being what Transaction.get_summary returned.  The aggregate SELECT
\* always yields a row, so total_cost is that row's column, None included;
\* revenue - None raises TypeError.
FinancialSummary(db, summary) ==
    LET total_cost == SqlSumCost(db)
        revenue == DictGet(summary, "payment", 0) + DictGet(summary, "sale", 0)
    IN  IF total_cost = NULL
        THEN [db |-> db, conn |-> <<"commit", "close">>, ret |-> "raised",
              line |-> 284, revenue |-> revenue, total_cost |-> NULL,
              profit |-> NULL]
        ELSE [db |-> db, conn |-> <<"commit", "close">>, ret |-> "summary",
              line |-> 286, revenue |-> revenue, total_cost |-> total_cost,
              profit |-> revenue - total_cost]

\* FinancialService.get_financial_summary without dates, run with no other
\* caller between its two units of work
get_financial_summary(db) == FinancialSummary(db, Transaction_get_summary(db))

-----------------------------------------------------------------------------
(* The state machine.  Each caller runs one handler at a time, every unit of  *)
(* work of the handler on a connection of its own.  A step is one unit of     *)
(* work (for cancel's restoring block, whose SELECT runs before its            *)
(* transaction opens, the SELECT and the UPDATEs are two steps): between two  *)
(* steps of a caller the store is committed and another caller may run.  A    *)
(* unit that raises ends the handler, which has no try block.                 *)

Idle == [pc |-> "idle", order_id |-> 0, product_id |-> 0, quantity |-> 0,
         unit_price |-> 0, items |-> <<>>, summary |-> <<>>]

Returned(op, r) == [op |-> op, ret |-> r.ret, line |-> r.line]

Ended(op, ret, line) == [op |-> op, ret |-> ret, line |-> line]

\* the store DatabaseManager.initialize_db leaves: every table empty
Construction ==
    /\ customers = <<>>
    /\ products = <<>>
    /\ orders = <<>>
    /\ order_items = <<>>
    /\ transactions = <<>>
    /\ sqlite_sequence = [customers |-> 0, products |-> 0, orders |-> 0,
                          order_items |-> 0, transactions |-> 0]
    /\ conn = <<>>
    /\ last = [op |-> "init", ret |-> "", line |-> 0]
    /\ calls = [c \in Callers |-> Idle]

\* the store once the first catalogue is set up: the state two add_product
\* calls reach from Construction
Init ==
    /\ customers = <<>>
    /\ products = InitProducts
    /\ orders = <<>>
    /\ order_items = <<>>
    /\ transactions = <<>>
    /\ sqlite_sequence = [customers |-> 0, products |-> Len(InitProducts),
                          orders |-> 0, order_items |-> 0, transactions |-> 0]
    /\ conn = <<>>
    /\ last = [op |-> "init", ret |-> "", line |-> 0]
    /\ calls = [c \in Callers |-> Idle]

\* the store a unit of work leaves behind
Commit(db) ==
    /\ customers' = db.customers
    /\ products' = db.products
    /\ orders' = db.orders
    /\ order_items' = db.order_items
    /\ transactions' = db.transactions
    /\ sqlite_sequence' = db.sqlite_sequence

\* what a handler of one unit of work leaves when it returns or raises
Call(op, r) ==
    /\ Commit(r.db)
    /\ conn' = r.conn
    /\ last' = Returned(op, r)
    /\ UNCHANGED calls

StockInRange(db) ==
    \A p \in DOMAIN db.products :
        db.products[p].quantity >= -MaxStock /\ db.products[p].quantity <= MaxStock

RegisterCustomer(c, email, f) ==
    /\ calls[c].pc = "idle"
    /\ sqlite_sequence.customers < MaxCustomers
    /\ Call("register_customer", register_customer(Store, email, f))

UpdateCustomer(c, customer_id, kwargs, f) ==
    /\ calls[c].pc = "idle"
    /\ Call("update_customer", update_customer(Store, customer_id, kwargs, f))

AddProduct(c, sku, price, cost_price, quantity, f) ==
    /\ calls[c].pc = "idle"
    /\ sqlite_sequence.products < MaxProducts
    /\ Call("add_product", add_product(Store, sku, price, cost_price, quantity, f))

UpdateProduct(c, p, kwargs, f) ==
    /\ calls[c].pc = "idle"
    /\ Call("update_product", update_product(Store, p, kwargs, f))

AdjustStock(c, p, d, f) ==
    /\ calls[c].pc = "idle"
    /\ StockInRange(adjust_stock(Store, p, d, f).db)
    /\ Call("adjust_stock", adjust_stock(Store, p, d, f))

RestockProduct(c, p, q, f) ==
    /\ calls[c].pc = "idle"
    /\ StockInRange(restock_product(Store, p, q, f).db)
    /\ Call("restock_product", restock_product(Store, p, q, f))

Delete(c, t, id, f) ==
    /\ calls[c].pc = "idle"
    /\ Call("delete", Outcome(delete(Store, t, id, f), 34))

CreateOrder(c, customer_id, f) ==
    /\ calls[c].pc = "idle"
    /\ sqlite_sequence.orders < MaxOrders
    /\ Call("create_order", create_order(Store, customer_id, f))

UpdateStatus(c, o, s, f) ==
    /\ calls[c].pc = "idle"
    /\ Call("update_status", update_order_status(Store, o, s, f))

GetOrderDetails(c, o) ==
    /\ calls[c].pc = "idle"
    /\ Call("get_order_details", get_order_details(Store, o))

RecordTransaction(c, t, o, a, f) ==
    /\ calls[c].pc = "idle"
    /\ sqlite_sequence.transactions < MaxTransactions
    /\ Call("record_transaction", record_transaction(Store, t, o, a, f))

RecordPayment(c, o, a, f) ==
    /\ calls[c].pc = "idle"
    /\ sqlite_sequence.transactions < MaxTransactions
    /\ Call("record_payment", record_payment(Store, o, a, f))

\* services.py:269  summary = Transaction.get_summary(start_date, end_date)
SummaryLedger(c) ==
    /\ calls[c].pc = "idle"
    /\ calls' = [calls EXCEPT ![c] = [Idle EXCEPT !.pc = "summary_cost",
                                                  !.summary = Transaction_get_summary(Store)]]
    /\ conn' = <<"commit", "close">>
    /\ UNCHANGED <<customers, products, orders, order_items, transactions,
                   sqlite_sequence, last>>

\* services.py:272-291  the cost query, revenue and profit
SummaryCost(c) ==
    /\ calls[c].pc = "summary_cost"
    /\ LET r == FinancialSummary(Store, calls[c].summary)
       IN  /\ Commit(r.db)
           /\ conn' = r.conn
           /\ last' = Returned("get_financial_summary", r)
    /\ calls' = [calls EXCEPT ![c] = Idle]

\* item rows present or about to be inserted by a call in flight
ItemsInFlight ==
    sqlite_sequence.order_items
        + Cardinality({c \in Callers : calls[c].pc = "add_create"})

\* add_item_to_order up to and including its tests (services.py:139-146)
AddItemBegin(c, o, p, q, f) ==
    /\ calls[c].pc = "idle"
    /\ ItemsInFlight < MaxItems
    /\ LET read == get_by_id(Store, "products", p, f) IN
        /\ conn' = read.conn
        /\ IF read.raised
           THEN /\ last' = Ended("add_item", "raised", 139)
                /\ UNCHANGED calls
           ELSE IF read.row = <<>>
           THEN /\ last' = Ended("add_item", "False", 141)
                /\ UNCHANGED calls
           ELSE IF InsufficientStock(read.row[1], q)
           THEN /\ last' = Ended("add_item", "False", 144)
                /\ UNCHANGED calls
           ELSE /\ calls' = [calls EXCEPT ![c] =
                               [Idle EXCEPT !.pc = "add_create", !.order_id = o,
                                            !.product_id = p, !.quantity = q,
                                            !.unit_price = read.row[1].price]]
                /\ UNCHANGED last
    /\ UNCHANGED <<customers, products, orders, order_items, transactions,
                   sqlite_sequence>>

\* services.py:147  OrderItem.create(order_id, product_id, quantity, unit_price)
AddItemCreate(c, f) ==
    /\ calls[c].pc = "add_create"
    /\ LET a == calls[c]
           r == OrderItem_create(Store, a.order_id, a.product_id, a.quantity,
                                 a.unit_price, f)
       IN  /\ StockInRange(r.db)
           /\ Commit(r.db)
           /\ conn' = r.conn
           /\ IF r.raised
              THEN /\ calls' = [calls EXCEPT ![c] = Idle]
                   /\ last' = Ended("add_item", "raised", 147)
              ELSE /\ calls' = [calls EXCEPT ![c] = [Idle EXCEPT !.pc = "add_total",
                                                                  !.order_id = a.order_id]]
                   /\ UNCHANGED last

\* services.py:150-151  _update_order_total(order_id); return True
AddItemTotal(c, f) ==
    /\ calls[c].pc = "add_total"
    /\ LET r == update_order_total(Store, calls[c].order_id, f)
       IN  /\ Commit(r.db)
           /\ conn' = r.conn
           /\ last' = IF r.raised THEN Ended("add_item", "raised", 150)
                                  ELSE Ended("add_item", "True", 151)
    /\ calls' = [calls EXCEPT ![c] = Idle]

\* cancel_order up to and including its test (services.py:191-193)
CancelBegin(c, o, f) ==
    /\ calls[c].pc = "idle"
    /\ LET read == get_by_id(Store, "orders", o, f) IN
        /\ conn' = read.conn
        /\ IF read.raised
           THEN /\ last' = Ended("cancel", "raised", 191)
                /\ UNCHANGED calls
           ELSE IF CancelRejected(read.row)
           THEN /\ last' = Ended("cancel", "False", 193)
                /\ UNCHANGED calls
           ELSE /\ calls' = [calls EXCEPT ![c] = [Idle EXCEPT !.pc = "cancel_select",
                                                               !.order_id = o]]
                /\ UNCHANGED last
    /\ UNCHANGED <<customers, products, orders, order_items, transactions,
                   sqlite_sequence>>

\* services.py:196-200  the restoring block up to items = cursor.fetchall():
\* the SELECT has run, in no transaction, and the connection stays open
CancelSelect(c, f) ==
    /\ calls[c].pc = "cancel_select"
    /\ f \in {NoFault, 1, Interrupt}
    /\ IF f = NoFault
       THEN /\ calls' = [calls EXCEPT
                            ![c].pc = "cancel_restore",
                            ![c].items = SelectItems(Store, calls[c].order_id)]
            /\ conn' = <<>>
            /\ UNCHANGED last
       ELSE /\ calls' = [calls EXCEPT ![c] = Idle]
            /\ conn' = RestoreStock(Store, <<>>, f).conn
            /\ last' = Ended("cancel", "raised", 196)
    /\ UNCHANGED <<customers, products, orders, order_items, transactions,
                   sqlite_sequence>>

\* services.py:202-206  the loop over the fetched items and the end of the
\* restoring block
CancelRestore(c, f) ==
    /\ calls[c].pc = "cancel_restore"
    /\ f # 1
    /\ LET r == RestoreStock(Store, calls[c].items, f)
       IN  /\ StockInRange(r.db)
           /\ Commit(r.db)
           /\ conn' = r.conn
           /\ IF r.raised
              THEN /\ calls' = [calls EXCEPT ![c] = Idle]
                   /\ last' = Ended("cancel", "raised", 196)
              ELSE /\ calls' = [calls EXCEPT ![c].pc = "cancel_update",
                                             ![c].items = <<>>]
                   /\ UNCHANGED last

\* services.py:208  return Order.update(order_id, status='cancelled')
CancelUpdate(c, f) ==
    /\ calls[c].pc = "cancel_update"
    /\ LET r == SetCancelled(Store, calls[c].order_id, f)
       IN  /\ Commit(r.db)
           /\ conn' = r.conn
           /\ last' = IF r.raised THEN Ended("cancel", "raised", 208)
                                  ELSE Ended("cancel", Bool(r.ret), 208)
    /\ calls' = [calls EXCEPT ![c] = Idle]

\* no call is in flight
Quiet == \A c \in Callers : calls[c].pc = "idle"

-----------------------------------------------------------------------------
(* What the claims speak of, written from the claims and not from the handlers *)

\* the indices of the order_items rows of store db that satisfy Keep
Rows(db, Keep(_)) == {i \in DOMAIN db.order_items : Keep(db.order_items[i])}

RECURSIVE SumQty(_, _)
SumQty(db, rows) ==
    IF rows = {} THEN 0
    ELSE LET i == CHOOSE j \in rows : TRUE
         IN  db.order_items[i].quantity + SumQty(db, rows \ {i})

RECURSIVE SumAmount(_, _)
SumAmount(db, rows) ==
    IF rows = {} THEN 0
    ELSE LET i == CHOOSE j \in rows : TRUE
         IN  db.order_items[i].quantity * db.order_items[i].unit_price
                + SumAmount(db, rows \ {i})

\* units of product p on the items of order o
OrderedQty(db, o, p) ==
    SumQty(db, Rows(db, LAMBDA it : it.order_id = o /\ it.product_id = p))

\* units of product p on the items of orders that exist and are not cancelled
HeldQty(db, p) ==
    SumQty(db, Rows(db, LAMBDA it : /\ it.product_id = p
                                    /\ it.order_id \in DOMAIN db.orders
                                    /\ db.orders[it.order_id].status # "cancelled"))

\* sum of quantity * unit_price over the items of order o; 0 when it has none
LineTotal(db, o) == SumAmount(db, Rows(db, LAMBDA it : it.order_id = o))

\* every order's total_amount is the sum over its items
TotalsAreLineSums(db) ==
    \A o \in DOMAIN db.orders : db.orders[o].total_amount = LineTotal(db, o)

-----------------------------------------------------------------------------
(* C1 *)

\* C1: stock conservation.  For every product, the quantity on hand plus the
\* units on the items of non-cancelled orders equals the quantity the product
\* started with, after any sequence of add_item and cancel calls.
C1_StockConservation ==
    Quiet =>
        \A p \in ProductIds :
            products[p].quantity + HeldQty(Store, p) = InitProducts[p].quantity

-----------------------------------------------------------------------------
(* C2 *)

\* C2: after every completed mutating call on an order (create_order,
\* add_item whether it succeeds or fails, update_status, cancel), every
\* order's total_amount is the sum of quantity * unit_price over its items,
\* 0 for an order with no items.
C2_TotalIsLineSum ==
    Quiet =>
        /\ TotalsAreLineSums(Store)
        /\ TotalsAreLineSums(create_order(Store, NULL, NoFault).db)
        /\ \A o \in OrderInputs, p \in ProductInputs, q \in QtyInputs :
              TotalsAreLineSums(add_item_to_order(Store, o, p, q).db)
        /\ \A o \in OrderInputs, s \in StatusInputs :
              TotalsAreLineSums(update_order_status(Store, o, s, NoFault).db)
        /\ \A o \in OrderInputs : TotalsAreLineSums(cancel_order(Store, o).db)

\* an order carries two items and add_item has just returned success on it
C2_Witness ==
    /\ Quiet
    /\ last.op = "add_item" /\ last.ret = "True"
    /\ \E o \in DOMAIN orders :
          /\ Cardinality(Rows(Store, LAMBDA it : it.order_id = o)) >= 2
          /\ orders[o].total_amount > 0

-----------------------------------------------------------------------------
(* C3 *)

\* C3: no product's quantity on hand is negative in any state reached by
\* sequentially executed create_order, add_item, update_status, cancel and
\* adjust_stock / restock calls.
C3_StockNonNegative ==
    Quiet => \A p \in DOMAIN products : products[p].quantity >= 0

-----------------------------------------------------------------------------
(* C4 *)

\* C4: add_item with a quantity greater than the product's quantity on hand
\* returns failure and leaves the stock, the order totals and the order items
\* as they were.
C4_RejectsInsufficientStock ==
    \A o \in OrderInputs, p \in DOMAIN products, q \in QtyInputs :
        q > products[p].quantity =>
            LET r == add_item_to_order(Store, o, p, q)
            IN  r.ret = "False" /\ r.db = Store

\* add_item has just been rejected for insufficient stock, on an order that
\* already holds an item
C4_Witness ==
    /\ last.op = "add_item" /\ last.ret = "False" /\ last.line = 144
    /\ Len(order_items) > 0

-----------------------------------------------------------------------------
(* C5 *)

\* C5: add_item on an existing order and product with 1 <= qty <= quantity on
\* hand returns success, takes exactly qty from the product's stock, appends
\* one item of that quantity at the product's current price and raises the
\* order's total by qty * price; nothing else changes.
C5_AddItemSucceeds ==
    Quiet =>
        \A o \in DOMAIN orders, p \in DOMAIN products, q \in QtyInputs :
            q <= products[p].quantity =>
                LET r == add_item_to_order(Store, o, p, q)
                IN  /\ r.ret = "True"
                    /\ r.db.products =
                           [products EXCEPT ![p].quantity = products[p].quantity - q]
                    /\ r.db.order_items =
                           Append(order_items,
                                  [id |-> sqlite_sequence.order_items + 1,
                                   order_id |-> o, product_id |-> p, quantity |-> q,
                                   unit_price |-> products[p].price])
                    /\ r.db.orders =
                           [orders EXCEPT ![o].total_amount =
                                orders[o].total_amount + q * products[p].price]
                    /\ r.db.customers = customers
                    /\ r.db.transactions = transactions

\* add_item has just succeeded and took the last units of a product
C5_Witness ==
    /\ Quiet
    /\ last.op = "add_item" /\ last.ret = "True"
    /\ Len(order_items) > 0
    /\ LET it == order_items[Len(order_items)]
       IN  /\ it.quantity >= 1
           /\ products[it.product_id].quantity = 0

-----------------------------------------------------------------------------
(* C6 *)

\* C6: cancel on an existing order in any status but cancelled returns
\* success, sets the status to cancelled and gives back to every product the
\* units on that order's items; nothing else changes.
C6_CancelRestores ==
    \A o \in DOMAIN orders :
        orders[o].status \in valid_statuses \ {"cancelled"} =>
            LET r == cancel_order(Store, o)
            IN  /\ r.ret = "True"
                /\ r.db.orders = [orders EXCEPT ![o].status = "cancelled"]
                /\ r.db.order_items = order_items
                /\ DOMAIN r.db.products = DOMAIN products
                /\ \A p \in DOMAIN products :
                       r.db.products[p] =
                          [products[p] EXCEPT
                              !.quantity = products[p].quantity + OrderedQty(Store, o, p)]
                /\ r.db.customers = customers
                /\ r.db.transactions = transactions

\* cancel has just succeeded on an order holding two items of one product
C6_Witness ==
    /\ Quiet
    /\ last.op = "cancel" /\ last.ret = "True"
    /\ \E o \in DOMAIN orders, p \in ProductIds :
          /\ orders[o].status = "cancelled"
          /\ Cardinality(Rows(Store, LAMBDA it : /\ it.order_id = o
                                                 /\ it.product_id = p)) >= 2
          /\ products[p].quantity = InitProducts[p].quantity

-----------------------------------------------------------------------------
(* C7 *)

\* C7: cancel on an order that does not exist or is already cancelled (the
\* second of two cancels in succession) returns failure and changes nothing.
C7_CancelRejected ==
    \A o \in OrderInputs :
        (o \notin DOMAIN orders \/ orders[o].status = "cancelled") =>
            LET r == cancel_order(Store, o)
            IN  r.ret = "False" /\ r.db = Store

\* cancel has just failed while an order is cancelled whose item's stock an
\* earlier cancel gave back
C7_Witness ==
    /\ last.op = "cancel" /\ last.ret = "False" /\ last.line = 193
    /\ \E i \in DOMAIN order_items :
          /\ orders[order_items[i].order_id].status = "cancelled"
          /\ products[order_items[i].product_id].quantity
                = InitProducts[order_items[i].product_id].quantity

-----------------------------------------------------------------------------
(* C8 *)

\* C8: cancel's restorations and its status change commit as one unit: no
\* committed state has an order's items given back to stock by a cancel call
\* while that order's status is not yet cancelled.
C8_CancelIsOneUnit ==
    \A c \in Callers :
        (/\ calls[c].pc = "cancel_update"
         /\ Rows(Store, LAMBDA it : it.order_id = calls[c].order_id) # {})
            => orders[calls[c].order_id].status = "cancelled"

-----------------------------------------------------------------------------
(* C9 *)

\* C9: add_item persists the recomputed total together with the new item and
\* the stock decrement: in every committed state, every recorded item is
\* included in its order's total_amount.
C9_TotalCommitsWithItem ==
    \A i \in DOMAIN order_items :
        LET o == order_items[i].order_id
        IN  orders[o].total_amount = LineTotal(Store, o)

-----------------------------------------------------------------------------
(* C10 *)

\* C10: the transaction of add_item that records the item and decrements the
\* stock commits both or neither: the step that ends it either appends the
\* call's item and takes its quantity from its product, or leaves items and
\* stock as they were.
C10_ItemAndStockTogether ==
    [][\A c \in Callers :
          (calls[c].pc = "add_create" /\ calls'[c].pc # "add_create") =>
              LET a == calls[c] IN
              \/ /\ order_items' =
                       Append(order_items,
                              [id |-> sqlite_sequence.order_items + 1,
                               order_id |-> a.order_id, product_id |-> a.product_id,
                               quantity |-> a.quantity, unit_price |-> a.unit_price])
                 /\ products' =
                       [products EXCEPT ![a.product_id].quantity = @ - a.quantity]
              \/ /\ order_items' = order_items
                 /\ products' = products]_vars

\* the UPDATE of OrderItem.create has just raised after its INSERT ran, and
\* neither the item nor the decrement is in the store
C10_Witness ==
    /\ last.op = "add_item" /\ last.ret = "raised" /\ last.line = 147
    /\ DOMAIN orders # {}
    /\ Len(order_items) = 0
    /\ \A p \in ProductIds : products[p].quantity = InitProducts[p].quantity

-----------------------------------------------------------------------------
(* C11 *)

\* C11: a partial restore is never committed.  The step that ends the
\* restoring transaction of a cancel, on an order whose items are of several
\* products, either gives every product the units on the order's items back
\* or leaves every product's stock as it was.
C11_RestoreAllOrNone ==
    [][\A c \in Callers :
          (/\ calls[c].pc = "cancel_restore" /\ calls'[c].pc # "cancel_restore"
           /\ \A p \in ProductIds : OrderedQty(Store, calls[c].order_id, p) >= 1) =>
              \/ \A p \in ProductIds :
                    products'[p].quantity =
                        products[p].quantity + OrderedQty(Store, calls[c].order_id, p)
              \/ \A p \in ProductIds : products'[p].quantity = products[p].quantity]_vars

-----------------------------------------------------------------------------
(* C12 *)

\* C12: the price on an item is a snapshot.  No step changes an item already
\* recorded; a call of add_item takes the catalogue price of the moment it
\* reads the product, and the item it records carries that price; a step that
\* changes a catalogue price changes no order and no item; and whenever no
\* call is in flight every total is the sum over its order's items at their
\* recorded prices.
C12_PriceSnapshot ==
    [][/\ \A i \in DOMAIN order_items :
             i \in DOMAIN order_items' /\ order_items'[i] = order_items[i]
       /\ \A c \in Callers :
             (calls[c].pc = "idle" /\ calls'[c].pc = "add_create") =>
                 calls'[c].unit_price = products[calls'[c].product_id].price
       /\ Len(order_items') > Len(order_items) =>
             LET it == order_items'[Len(order_items')]
             IN  \E c \in Callers :
                    /\ calls[c].pc = "add_create"
                    /\ calls[c].product_id = it.product_id
                    /\ calls[c].unit_price = it.unit_price
       /\ (\E p \in DOMAIN products : products'[p].price # products[p].price) =>
             orders' = orders /\ order_items' = order_items
       /\ Quiet' => TotalsAreLineSums(Store')]_vars

\* an item was added to an order after the price of a product on one of its
\* earlier items had changed
C12_Witness ==
    /\ Quiet
    /\ last.op = "add_item" /\ last.ret = "True"
    /\ \E i \in DOMAIN order_items :
          /\ i < Len(order_items)
          /\ order_items[i].order_id = order_items[Len(order_items)].order_id
          /\ order_items[i].unit_price # products[order_items[i].product_id].price

-----------------------------------------------------------------------------
(* C13 *)

\* C13: update_status with a status outside the six valid ones returns
\* failure and leaves the order's status and everything else as it was, for
\* every order id, existing or not.
C13_InvalidStatusRejected ==
    \A o \in OrderInputs, s \in StatusInputs \ valid_statuses :
        LET r == update_order_status(Store, o, s, NoFault)
        IN  r.ret = "False" /\ r.db = Store

\* update_status has just refused a status on an existing order that holds an
\* item and is not pending
C13_Witness ==
    /\ last.op = "update_status" /\ last.ret = "False" /\ last.line = 175
    /\ \E o \in DOMAIN orders :
          orders[o].status # "pending" /\ Len(ItemsOf(Store, o)) > 0

-----------------------------------------------------------------------------
(* C14 *)

\* C14: update_status is permissive.  For every existing order, whatever its
\* status (cancelled included), and every valid target status, update_status
\* returns success and leaves the order in the target status.
C14_AnyValidTransition ==
    \A o \in DOMAIN orders, t \in valid_statuses :
        LET r == update_order_status(Store, o, t, NoFault)
        IN  r.ret = "True" /\ r.db.orders[o].status = t

\* an order that cancel had cancelled (its item's units are back in stock) is
\* pending again after a successful update_status
C14_Witness ==
    /\ Quiet
    /\ last.op = "update_status" /\ last.ret = "True"
    /\ \E o \in DOMAIN orders :
          /\ orders[o].status = "pending"
          /\ Len(ItemsOf(Store, o)) > 0
          /\ \A p \in ProductIds : products[p].quantity = InitProducts[p].quantity

-----------------------------------------------------------------------------
(* C15 *)

\* C15: update_status never touches stock or totals.  For every order id and
\* every status, valid or not, cancelled included, every product's quantity,
\* every order's total_amount and every order item are the same after the call
\* as before it.
C15_StatusFrame ==
    \A o \in OrderInputs, s \in StatusInputs :
        LET r == update_order_status(Store, o, s, NoFault)
        IN  /\ r.db.products = products
            /\ r.db.order_items = order_items
            /\ DOMAIN r.db.orders = DOMAIN orders
            /\ \A o2 \in DOMAIN orders :
                  r.db.orders[o2].total_amount = orders[o2].total_amount

\* update_status has just set cancelled on an order with an item, and the
\* item's units are still out of stock and still in the order's total
C15_Witness ==
    /\ Quiet
    /\ last.op = "update_status" /\ last.ret = "True"
    /\ \E o \in DOMAIN orders :
          /\ orders[o].status = "cancelled"
          /\ Len(ItemsOf(Store, o)) > 0
          /\ orders[o].total_amount = LineTotal(Store, o)
          /\ \A p \in ProductIds :
                products[p].quantity = InitProducts[p].quantity - OrderedQty(Store, o, p)

-----------------------------------------------------------------------------
(* C16 *)

\* what the claim says of a create_order call that was given customer_id
CreatesOrder(r, customer_id) ==
    /\ r.ret = "id"
    /\ r.id \notin DOMAIN orders
    /\ DOMAIN r.db.orders = DOMAIN orders \cup {r.id}
    /\ r.db.orders[r.id] =
           [customer_id |-> customer_id, status |-> "pending", total_amount |-> 0]
    /\ Len(ItemsOf(r.db, r.id)) = 0
    /\ \A o \in DOMAIN orders : r.db.orders[o] = orders[o]
    /\ r.db.products = products
    /\ r.db.order_items = order_items
    /\ r.db.customers = customers
    /\ r.db.transactions = transactions

\* C16: create_order, whatever customer it is given, returns the identity of
\* a new order, which is pending, has total 0 and no items; every product and
\* every order and item that existed before the call is unchanged.
C16_CreateOrderAlways ==
    \A customer_id \in CustomerInputs :
        CreatesOrder(create_order(Store, customer_id, NoFault), customer_id)

-----------------------------------------------------------------------------
(* C17 *)

\* C17: add_item with a product that does not exist returns failure as a
\* result value, not a fault, and leaves items, stock and totals as they were,
\* for every order id and quantity.
C17_MissingProductFails ==
    \A o \in OrderInputs, p \in ProductInputs \ DOMAIN products, q \in QtyInputs :
        LET r == add_item_to_order(Store, o, p, q)
        IN  r.ret = "False" /\ r.db = Store

\* add_item has just returned failure at the product lookup while an order
\* existed to receive the item
C17_Witness ==
    /\ last.op = "add_item" /\ last.ret = "False" /\ last.line = 141
    /\ DOMAIN orders # {}

-----------------------------------------------------------------------------
(* C18 *)

\* C18: with an order id that does not exist, add_item (existing product,
\* enough stock), update_status (valid status) and cancel each return
\* failure, not a fault, and leave the store as it was.
C18_MissingOrderFails ==
    \A o \in OrderInputs \ DOMAIN orders :
        /\ \A p \in DOMAIN products, q \in QtyInputs :
              q <= products[p].quantity =>
                  LET r == add_item_to_order(Store, o, p, q)
                  IN  r.ret = "False" /\ r.db = Store
        /\ \A s \in valid_statuses :
              LET r == update_order_status(Store, o, s, NoFault)
              IN  r.ret = "False" /\ r.db = Store
        /\ LET r == cancel_order(Store, o)
           IN  r.ret = "False" /\ r.db = Store

-----------------------------------------------------------------------------
(* C19 *)

\* C19: add_item calls running at the same time behave as if run one after
\* the other: no product's stock is negative, and the items recorded for a
\* product never hold more units than the product had in stock.
C19_AddItemsSerialized ==
    \A p \in ProductIds :
        /\ products[p].quantity >= 0
        /\ SumQty(Store, Rows(Store, LAMBDA it : it.product_id = p))
               <= InitProducts[p].quantity

-----------------------------------------------------------------------------
(* C20 *)

\* C20: all-or-nothing under storage failure.  An add_item or a cancel in
\* which a store statement fails (the insert, the decrement or the total
\* recompute of add_item; a restoration or the status update of cancel) ends
\* with the store as it was before the call.
C20_AllOrNothing ==
    /\ \A o \in OrderInputs, p \in ProductInputs, q \in QtyInputs,
          f_create \in StatementFaults, f_total \in StatementFaults :
            LET r == add_item_to_order_faults(Store, o, p, q,
                                              <<NoFault, f_create, f_total>>)
            IN  r.ret = "raised" => r.db = Store
    /\ \A o \in OrderInputs, f_restore \in StatementFaults,
          f_update \in StatementFaults :
            LET r == cancel_order_faults(Store, o, <<NoFault, f_restore, f_update>>)
            IN  r.ret = "raised" => r.db = Store

-----------------------------------------------------------------------------
(* C21 *)

\* C21: get_order_details never fails and never changes the store; for an
\* existing order it returns the order's row with exactly the items attached
\* to the order, for an order id that does not exist it returns None.
C21_OrderDetails ==
    \A o \in OrderInputs :
        LET r == get_order_details(Store, o)
        IN  /\ r.db = Store
            /\ IF o \in DOMAIN orders
               THEN /\ r.ret = "details"
                    /\ r.order = <<orders[o]>>
                    /\ r.items = ItemsOf(Store, o)
               ELSE r.ret = "None"

-----------------------------------------------------------------------------
(* C22 *)

RECURSIVE SumCost(_, _)
SumCost(db, rows) ==
    IF rows = {} THEN 0
    ELSE LET i == CHOOSE j \in rows : TRUE
         IN  db.order_items[i].quantity
                 * db.products[db.order_items[i].product_id].cost_price
             + SumCost(db, rows \ {i})

RECURSIVE SumEntries(_, _)
SumEntries(db, entries) ==
    IF entries = {} THEN 0
    ELSE LET i == CHOOSE j \in entries : TRUE
         IN  db.transactions[i].amount + SumEntries(db, entries \ {i})

\* C22: in every state the financial summary returns total_cost = the sum of
\* quantity * current cost price over the items of non-cancelled orders (0
\* when there are none), revenue = the sum of the ledger entries typed payment
\* or sale, and profit = revenue - total_cost.
C22_FinancialSummary ==
    LET r == get_financial_summary(Store)
        cost == SumCost(Store, Rows(Store, LAMBDA it :
                                  /\ it.order_id \in DOMAIN orders
                                  /\ orders[it.order_id].status # "cancelled"))
        income == SumEntries(Store, {i \in DOMAIN transactions :
                      transactions[i].transaction_type \in {"payment", "sale"}})
    IN  /\ r.ret = "summary"
        /\ r.total_cost = cost
        /\ r.revenue = income
        /\ r.profit = income - cost

-----------------------------------------------------------------------------
(* C23 *)

\* C23: every recorded order item has a quantity of at least 1, and add_item
\* called with any integer quantity (0 and negative ones included) never
\* raises a product's stock.
C23_PositiveItemQuantity ==
    /\ \A i \in DOMAIN order_items : order_items[i].quantity >= 1
    /\ Quiet =>
          \A o \in OrderInputs, p \in ProductInputs, q \in IntQtyInputs :
              LET r == add_item_to_order(Store, o, p, q)
              IN  \A p2 \in DOMAIN products :
                      r.db.products[p2].quantity <= products[p2].quantity

-----------------------------------------------------------------------------
(* C24 *)

\* C24: order items are created once per add_item call and never changed.  A
\* successful add_item appends exactly one item (also when the order already
\* has an item of the product) and leaves the others as they were; a failed
\* add_item, and every update_status, cancel and adjust_stock call, leaves
\* the order items as they were.
C24_ItemsAppendOnly ==
    /\ \A o \in OrderInputs, p \in ProductInputs, q \in QtyInputs :
          LET r == add_item_to_order(Store, o, p, q)
          IN  IF r.ret = "True"
              THEN r.db.order_items =
                       Append(order_items,
                              [id |-> sqlite_sequence.order_items + 1,
                               order_id |-> o, product_id |-> p, quantity |-> q,
                               unit_price |-> products[p].price])
              ELSE r.db.order_items = order_items
    /\ \A o \in OrderInputs, s \in StatusInputs :
          update_order_status(Store, o, s, NoFault).db.order_items = order_items
    /\ \A o \in OrderInputs : cancel_order(Store, o).db.order_items = order_items
    /\ \A p \in ProductInputs, d \in DeltaInputs :
          adjust_stock(Store, p, d, NoFault).db.order_items = order_items

\* a second add_item of the same product to the same order has just succeeded
\* and the order holds two items of that product
C24_Witness ==
    /\ Quiet
    /\ last.op = "add_item" /\ last.ret = "True"
    /\ Len(order_items) >= 2
    /\ LET a == order_items[Len(order_items) - 1]
           b == order_items[Len(order_items)]
       IN  a.order_id = b.order_id /\ a.product_id = b.product_id

-----------------------------------------------------------------------------
(* C25 *)

\* C25 as the specification states it: every unit of work ends in exactly
\* one of commit and rollback, and the connection is then closed.
C25_CommitXorRollback ==
    conn # <<>> => conn \in {<<"commit", "close">>, <<"rollback", "close">>}

\* C25: a unit of work ends in one of four ways, and the connection is closed
\* in all of them.  For the units of work of add_item and cancel started on
\* the current store with any arguments and anything going wrong: when the
\* body finishes and the commit succeeds the connection is committed then
\* closed; when a statement raises it is rolled back then closed; when the
\* commit itself raises it is committed, rolled back, then closed; when the
\* body is left by an exception that is not an Exception it is only closed.
\* In the last three the exception reaches the caller and the store is as
\* before.
C25_UnitOfWork ==
    LET How(f, failed) ==
            IF f = Interrupt THEN <<"close">>
            ELSE IF failed THEN <<"rollback", "close">>
            ELSE IF f = CommitFault THEN <<"commit", "rollback", "close">>
            ELSE <<"commit", "close">>
        Ends(u, f, failed) ==
            /\ u.conn = How(f, failed)
            /\ u.raised = (u.conn # <<"commit", "close">>)
            /\ u.raised => u.db = Store
            /\ u.conn[Len(u.conn)] = "close"
    IN  /\ \A o \in OrderInputs, p \in ProductIds \cup {MaxProducts + 1},
              f \in FaultInputs :
                Ends(OrderItem_create(Store, o, p, 1, 1, f), f,
                     f \in {1, 2} \/ o \notin DOMAIN orders \/ p \notin DOMAIN products)
        /\ \A o \in OrderInputs, f \in FaultInputs :
                /\ Ends(update_order_total(Store, o, f), f, f = 1)
                /\ Ends(RestoreStock(Store, SelectItems(Store, o), f), f,
                        f >= 1 /\ f <= Len(ItemsOf(Store, o)) + 1)
        /\ conn # <<>> => conn[Len(conn)] = "close"

\* the commit of cancel's status update has just raised and was rolled back:
\* the order is not cancelled, while the restorations committed by the unit
\* before it stay
C25_Witness ==
    /\ last.op = "cancel" /\ last.ret = "raised" /\ last.line = 208
    /\ conn = <<"commit", "rollback", "close">>
    /\ \E o \in DOMAIN orders :
          /\ orders[o].status # "cancelled"
          /\ Len(ItemsOf(Store, o)) > 0
          /\ \A p \in ProductIds : products[p].quantity = InitProducts[p].quantity

-----------------------------------------------------------------------------
(* C26 *)

\* C26: stock conservation survives status changes.  After any sequence of
\* add_item, cancel and update_status calls, every product's quantity plus the
\* units on the items of non-cancelled orders equals its initial quantity, and
\* no product holds more than its initial quantity (an order's items go back
\* to stock at most once).
C26_ConservationAcrossStatus ==
    Quiet =>
        \A p \in ProductIds :
            /\ products[p].quantity <= InitProducts[p].quantity
            /\ products[p].quantity + HeldQty(Store, p) = InitProducts[p].quantity

-----------------------------------------------------------------------------
(* C27 *)

\* C27: a cancelled order never gains an item.  add_item on an order whose
\* status is cancelled returns failure and leaves items, stock and totals as
\* they were, for every product and quantity.
C27_CancelledOrderClosed ==
    \A o \in DOMAIN orders, p \in ProductInputs, q \in QtyInputs :
        orders[o].status = "cancelled" =>
            LET r == add_item_to_order(Store, o, p, q)
            IN  r.ret = "False" /\ r.db = Store

-----------------------------------------------------------------------------
(* C28 *)

\* C28: two cancel calls running at the same time on one order restore its
\* items once, not twice.  With no storage failure and no status change other
\* than cancel's, no product ever holds more than its initial quantity.
C28_ConcurrentCancelOnce ==
    \A p \in ProductIds : products[p].quantity <= InitProducts[p].quantity

-----------------------------------------------------------------------------
(* C29 *)

\* C29: add_item calls running at the same time on one order leave no stale
\* total behind.  With no storage failure, whenever no call is in flight every
\* order's total_amount is the sum of quantity * unit_price over its items.
C29_TotalAfterConcurrentAdds ==
    (\A c \in Callers : calls[c].pc = "idle") =>
        \A o \in DOMAIN orders : orders[o].total_amount = LineTotal(Store, o)

\* two add_item calls on one order have overlapped (both passed the stock
\* test before either decrement, leaving a stock below zero) and both have
\* returned
C29_Witness ==
    /\ \A c \in Callers : calls[c].pc = "idle"
    /\ last.op = "add_item" /\ last.ret = "True"
    /\ \E p \in ProductIds : products[p].quantity < 0
    /\ \E o \in DOMAIN orders : Len(ItemsOf(Store, o)) = 2

-----------------------------------------------------------------------------
(* C30 *)

\* C30: in every state reached through create_order, add_item, update_status
\* (called with any string) and cancel, every order's status is one of
\* pending, confirmed, processing, shipped, delivered, cancelled.
C30_StatusAlwaysValid ==
    \A o \in DOMAIN orders : orders[o].status \in valid_statuses

\* update_status has just refused a string that is no status on an order
\* that cancel had cancelled
C30_Witness ==
    /\ last.op = "update_status" /\ last.ret = "False" /\ last.line = 175
    /\ \E o \in DOMAIN orders :
          /\ orders[o].status = "cancelled"
          /\ Len(ItemsOf(Store, o)) > 0
          /\ \A p \in ProductIds : products[p].quantity = InitProducts[p].quantity

-----------------------------------------------------------------------------
(* The specifications.  In those of one caller the handlers run one after    *)
(* the other, each through all its units of work; in those of two callers    *)
(* the units of work of the two interleave.                                  *)

\* add_item_to_order by one caller, unit by unit, with no storage failure
AddItemSteps(c, orders_in, products_in, quantities_in) ==
    \/ \E o \in orders_in, p \in products_in, q \in quantities_in :
          AddItemBegin(c, o, p, q, NoFault)
    \/ AddItemCreate(c, NoFault)
    \/ AddItemTotal(c, NoFault)

\* cancel_order by one caller, unit by unit, with no storage failure
CancelSteps(c) ==
    \/ \E o \in OrderInputs : CancelBegin(c, o, NoFault)
    \/ CancelSelect(c, NoFault)
    \/ CancelRestore(c, NoFault)
    \/ CancelUpdate(c, NoFault)

\* Sequences of create_order, add_item and cancel calls only
NextAddCancel ==
    \/ CreateOrder(1, NULL, NoFault)
    \/ AddItemSteps(1, OrderInputs, ProductInputs, QtyInputs)
    \/ CancelSteps(1)

SpecAddCancel == Init /\ [][NextAddCancel]_vars

\* The engine's operations called one after the other, with positive quantities
Next ==
    \/ NextAddCancel
    \/ \E o \in OrderInputs, s \in StatusInputs : UpdateStatus(1, o, s, NoFault)

Spec == Init /\ [][Next]_vars

\* Orders filled one unit at a time, moved between statuses and cancelled
NextStatus ==
    \/ CreateOrder(1, NULL, NoFault)
    \/ AddItemSteps(1, OrderInputs, ProductIds, {1})
    \/ \E o \in OrderInputs, s \in StatusInputs : UpdateStatus(1, o, s, NoFault)
    \/ CancelSteps(1)

SpecStatus == Init /\ [][NextStatus]_vars

\* Every engine and stock operation, with any integer quantity and delta
NextStock ==
    \/ CreateOrder(1, NULL, NoFault)
    \/ AddItemSteps(1, OrderInputs, ProductIds, {-1, 1})
    \/ \E o \in OrderInputs, s \in {"confirmed", "cancelled"} :
          UpdateStatus(1, o, s, NoFault)
    \/ CancelSteps(1)
    \/ \E p \in ProductInputs, d \in DeltaInputs : AdjustStock(1, p, d, NoFault)
    \/ \E p \in ProductInputs : RestockProduct(1, p, 1, NoFault)

SpecStock == Init /\ [][NextStock]_vars

\* From the empty store: the catalogue growing, changing and shrinking while
\* orders are filled with any integer quantity
NextCatalogue ==
    \/ CreateOrder(1, NULL, NoFault)
    \/ AddItemSteps(1, OrderInputs, {1, MaxProducts + 1}, {0, 1})
    \/ \E row \in ProductRowInputs :
          AddProduct(1, row.sku, row.price, row.cost_price, row.quantity, NoFault)
    \/ \E p \in ProductInputs, kwargs \in KwargsInputs :
          UpdateProduct(1, p, kwargs, NoFault)
    \/ \E t \in TableInputs, id \in 1..2 : Delete(1, t, id, NoFault)

SpecCatalogue == Construction /\ [][NextCatalogue]_vars

\* the first catalogue, as add_product set it up from the empty store
CatalogueSetUp ==
    /\ products = InitProducts
    /\ sqlite_sequence.products = Len(InitProducts)
    /\ last.op = "add_product"

\* Customers registered and orders created for them, for no customer and for
\* customers that do not exist
NextCustomers ==
    \/ \E email \in EmailInputs : RegisterCustomer(1, email, NoFault)
    \/ \E customer_id \in 1..(MaxCustomers + 1), kwargs \in CustomerKwargs :
          UpdateCustomer(1, customer_id, kwargs, NoFault)
    \/ \E customer_id \in CustomerInputs : CreateOrder(1, customer_id, NoFault)
    \/ AddItemSteps(1, OrderInputs, ProductIds, {1})
    \/ \E id \in 1..MaxCustomers : Delete(1, "customers", id, NoFault)

SpecCustomers == Init /\ [][NextCustomers]_vars

\* Orders filled while catalogue prices change
NextPrice ==
    \/ CreateOrder(1, NULL, NoFault)
    \/ AddItemSteps(1, OrderInputs, ProductInputs, QtyInputs)
    \/ \E p \in ProductInputs, kwargs \in PriceKwargs :
          UpdateProduct(1, p, kwargs, NoFault)

SpecPrice == Init /\ [][NextPrice]_vars

\* Every operation the claim on order items names
NextItems ==
    \/ CreateOrder(1, NULL, NoFault)
    \/ AddItemSteps(1, OrderInputs, ProductIds, {1})
    \/ \E o \in OrderInputs, s \in {"cancelled", "bogus"} :
          UpdateStatus(1, o, s, NoFault)
    \/ CancelSteps(1)
    \/ \E d \in {-1, 1} : AdjustStock(1, 1, d, NoFault)

SpecItems == Init /\ [][NextItems]_vars

\* Orders filled and cancelled, ledger entries recorded, and the two reports
NextReport ==
    \/ CreateOrder(1, NULL, NoFault)
    \/ AddItemSteps(1, OrderInputs, ProductIds, {1})
    \/ CancelSteps(1)
    \/ \E t \in TransactionTypes, o \in {NULL} \cup OrderInputs, a \in AmountInputs :
          RecordTransaction(1, t, o, a, NoFault)
    \/ \E o \in OrderInputs, a \in AmountInputs : RecordPayment(1, o, a, NoFault)
    \/ \E p \in ProductIds, kwargs \in CostKwargs : UpdateProduct(1, p, kwargs, NoFault)
    \/ \E o \in OrderInputs : GetOrderDetails(1, o)
    \/ SummaryLedger(1)
    \/ SummaryCost(1)

SpecReport == Init /\ [][NextReport]_vars

\* what may go wrong in a unit of work of so many statements
UnitFaults(statements) == 0..statements \cup {CommitFault, Interrupt}

\* One caller whose units of work may go wrong in every way: a statement
\* raises, the commit raises, or the body is interrupted
NextUnits ==
    \/ \E f \in UnitFaults(1) : CreateOrder(1, NULL, f)
    \/ \E o \in OrderInputs, f \in UnitFaults(1) : AddItemBegin(1, o, 1, 1, f)
    \/ \E f \in UnitFaults(2) : AddItemCreate(1, f)
    \/ \E f \in UnitFaults(1) : AddItemTotal(1, f)
    \/ \E o \in OrderInputs, f \in UnitFaults(1) : CancelBegin(1, o, f)
    \/ \E f \in UnitFaults(1) : CancelSelect(1, f)
    \/ \E f \in UnitFaults(MaxItems + 1) : CancelRestore(1, f)
    \/ \E f \in UnitFaults(1) : CancelUpdate(1, f)

SpecUnits == Init /\ [][NextUnits]_vars

\* Two callers running add_item and cancel, their units of work interleaved,
\* with storage failures
NextTx ==
    \/ CreateOrder(1, NULL, NoFault)
    \/ \E c \in Callers, o \in OrderInputs, p \in ProductInputs, q \in QtyInputs :
          AddItemBegin(c, o, p, q, NoFault)
    \/ \E c \in Callers, f \in StatementFaults : AddItemCreate(c, f)
    \/ \E c \in Callers, f \in StatementFaults : AddItemTotal(c, f)
    \/ \E c \in Callers, o \in OrderInputs : CancelBegin(c, o, NoFault)
    \/ \E c \in Callers, f \in StatementFaults : CancelSelect(c, f)
    \/ \E c \in Callers, f \in StatementFaults : CancelRestore(c, f)
    \/ \E c \in Callers, f \in StatementFaults : CancelUpdate(c, f)

SpecTx == Init /\ [][NextTx]_vars

\* Two callers running add_item only, their units of work interleaved, with
\* storage failures
NextTxAdd ==
    \/ CreateOrder(1, NULL, NoFault)
    \/ \E c \in Callers, o \in OrderInputs, p \in ProductInputs, q \in QtyInputs :
          AddItemBegin(c, o, p, q, NoFault)
    \/ \E c \in Callers, f \in StatementFaults : AddItemCreate(c, f)
    \/ \E c \in Callers, f \in StatementFaults : AddItemTotal(c, f)

SpecTxAdd == Init /\ [][NextTxAdd]_vars

\* Two callers running add_item with no storage failure
NextTxAddNoFault ==
    \/ CreateOrder(1, NULL, NoFault)
    \/ \E c \in Callers : AddItemSteps(c, OrderInputs, ProductInputs, QtyInputs)

SpecTxAddNoFault == Init /\ [][NextTxAddNoFault]_vars

\* Orders filled one unit at a time by one caller, and two callers running
\* cancel with no storage failure
NextTxCancelNoFault ==
    \/ CreateOrder(1, NULL, NoFault)
    \/ AddItemSteps(1, OrderInputs, ProductIds, {1})
    \/ \E c \in Callers : CancelSteps(c)

SpecTxCancelNoFault == Init /\ [][NextTxCancelNoFault]_vars

====
